---- MODULE Spec2Model ----
(***************************************************************************)
(* pCacheFS: a persistently caching FUSE filesystem (src/pcachefs.py).     *)
(*                                                                         *)
(* The model has three specifications over one set of variables:           *)
(*   Spec        the FUSE server: PersistentCacheFs dispatching the read,  *)
(*               getattr and readdir requests of one caller to a Cacher    *)
(*               over an UnderlyingFs whose content changes, with the      *)
(*               cache directory as state;                                 *)
(*   SpecConc    the same server with several callers issuing reads at     *)
(*               the same time, against a source that records the calls    *)
(*               made to it;                                               *)
(*   SpecRanges  a single Ranges object (module ranges, imported at        *)
(*               src/pcachefs.py:31) driven by arbitrary add_range and     *)
(*               get_uncovered_portions calls.                             *)
(***************************************************************************)
EXTENDS Integers, Sequences, FiniteSets, TLC

\* ------------------------------------------------------------------ bounds
\* largest size of the source file
MaxSize == 2
\* read requests use offsets 0..MaxOff and sizes 0..MaxLen
MaxOff == 1
MaxLen == 3
\* number of callers that can have a request outstanding at the same time
MaxThreads == 2
\* number of reads the callers issue when the source records them
MaxReads == 2
\* bounds of the Ranges object driven on its own: interval ends, call count
MaxPos == 5
MaxAdds == 4

\* most characters a virtual file holds
MaxVfLen == 3

\* ------------------------------------------------------------- basic helpers
Min(a, b) == IF a <= b THEN a ELSE b

Max(a, b) == IF a >= b THEN a ELSE b

\* an absent file / an absent value, and a present one
None == << >>

Some(x) == << x >>

\* ------------------------------------------------ module ranges (Range, Ranges)
\* A Range is <<start, end>>, half-open; a Ranges object is a sequence of
\* Range, kept sorted by start with no two touching or overlapping.
Range(start, end) == << start, end >>

RangeSize(r) == r[2] - r[1]

Ranges == << >>

\* the byte offsets a Range / a Ranges object stands for
RangeSet(r) == r[1] .. (r[2] - 1)

Covered(rs) == UNION { RangeSet(rs[i]) : i \in 1 .. Len(rs) }

\* faulty variant of add_range: inserts in order without merging
add_range_nomerge(rs, r) ==
    LET before == SelectSeq(rs, LAMBDA x : x[1] < r[1])
        after  == SelectSeq(rs, LAMBDA x : x[1] >= r[1])
    IN  before \o << r >> \o after

\* Ranges.add_range: insert r, merging it with every range it overlaps or
\* touches
add_range(rs, r) ==
    LET before == SelectSeq(rs, LAMBDA x : x[2] < r[1])
        after  == SelectSeq(rs, LAMBDA x : x[1] > r[2])
        touch  == SelectSeq(rs, LAMBDA x : x[2] >= r[1] /\ x[1] <= r[2])
        merged == IF touch = << >>
                  THEN r
                  ELSE Range(Min(r[1], touch[1][1]), Max(r[2], touch[Len(touch)][2]))
    IN  before \o << merged >> \o after

RECURSIVE uncovered_from(_, _, _, _)
\* the gaps of [cursor, end) left by the ranges rs[i..]
uncovered_from(rs, i, cursor, end) ==
    IF cursor >= end THEN << >>
    ELSE IF i > Len(rs) THEN << Range(cursor, end) >>
    ELSE IF rs[i][2] <= cursor THEN uncovered_from(rs, i + 1, cursor, end)
    ELSE IF rs[i][1] >= end THEN << Range(cursor, end) >>
    ELSE IF rs[i][1] > cursor
         THEN << Range(cursor, rs[i][1]) >> \o uncovered_from(rs, i + 1, rs[i][2], end)
         ELSE uncovered_from(rs, i + 1, rs[i][2], end)

\* faulty variant of get_uncovered_portions: all of q unless q is covered
get_uncovered_portions_whole(rs, q) ==
    IF RangeSet(q) \subseteq Covered(rs) THEN << >> ELSE << q >>

\* Ranges.get_uncovered_portions: the parts of q no range of rs covers, in
\* ascending order
get_uncovered_portions(rs, q) == uncovered_from(rs, 1, q[1], q[2])

\* the canonical form of a coverage: sorted, no overlap, no touching
IsCanonical(rs) ==
    /\ \A i \in 1 .. Len(rs) : rs[i][1] < rs[i][2]
    /\ \A i \in 1 .. Len(rs) - 1 : rs[i][2] < rs[i + 1][1]


\* ------------------------------------------------------------ the source tree
\* The target directory holds one regular file, one directory and nothing at
\* MissingPath.
FilePath == "/a"

DirPath == "/d"

MissingPath == "/missing"

Paths == { FilePath, DirPath, MissingPath }

\* path arguments without the leading slash: a relative name, the empty string
RelPath == "a"

EmptyPath == ""

BadPaths == { RelPath, EmptyPath }

\* the characters of a path argument
Spelling(p) ==
    CASE p = FilePath -> << "/", "a" >>
      [] p = DirPath -> << "/", "d" >>
      [] p = MissingPath -> << "/", "m", "i", "s", "s", "i", "n", "g" >>
      [] p = RelPath -> << "a" >>
      [] p = EmptyPath -> << >>

\* byte offsets a request can name
Offsets == 0 .. (MaxOff + MaxLen - 1)

VARIABLES
    src_size,      \* size of the source file
    src_gen,       \* which of its two versions the source tree is in, 0 or 1:
                   \* content, mtime and listing differ between them
    src_dir,       \* whether the source holds the directory DirPath right now
    cache_dirs,    \* paths whose cache directory exists
    cache_stat,    \* path -> None | Some(stat)        cache.stat
    cache_list,    \* path -> None | Some(listing)     cache.list
    cache_data,    \* path -> None | Some(bytes)       cache.data
    cache_range,   \* path -> None | Some(Ranges)      cache.data.range
    callers,       \* the callers that issue requests
    recording,     \* whether the source and the callers keep the histories below
    thr,           \* the request each caller has outstanding and where it is
    okBytes,       \* history: path -> offset -> what successful reads returned
    fetched,       \* history: path -> offset -> what the source last returned
    fetchCount,    \* recorded: path -> offset -> source reads of it (capped at 2)
    issued,        \* recorded: path -> offsets some read has asked for
    overlapped,    \* recorded: path -> some read asked for an offset asked before
    failed,        \* recorded: path -> some read ended with an error
    nreads,        \* recorded: number of reads issued
    concurrent,    \* recorded: path -> a read was issued while another was outstanding
    statCalls,     \* history: path -> successful source stats of it (capped at 2)
    listCalls,     \* history: path -> successful source listings of it (capped at 2)
    firstStat,     \* history: path -> what the first successful getattr returned
    firstList,     \* history: path -> what the first successful readdir returned
    rg,            \* SpecRanges: the Ranges object
    rg_added,      \* SpecRanges: offsets of every range added so far
    rg_prev,       \* SpecRanges: the Ranges object before the last add_range
    rg_op,         \* SpecRanges: the last call, "add" or "query"
    rg_arg,        \* SpecRanges: its argument
    rg_result,     \* SpecRanges: its result
    rg_calls,      \* SpecRanges: number of calls made
    vf_content,    \* SpecVfs: file name -> None | Some(characters)   self.content
    vf_value,      \* SpecVfs: file name -> what callback_on_read returns
    vf_written,    \* SpecVfs: file name -> its write or truncate has been invoked
    vf_ret,        \* SpecVfs: the last call, its file and what it returned or raised
    tree,          \* SpecTree: location under the cache directory -> what is there
    tr_ret         \* SpecTree: the last call, its path and what it returned or raised

cacheVars == << cache_dirs, cache_stat, cache_list, cache_data, cache_range >>

histVars == << okBytes, fetched, fetchCount, issued, overlapped, failed, nreads, concurrent >>

rgVars == << rg, rg_added, rg_prev, rg_op, rg_arg, rg_result, rg_calls >>

trVars == << tree, tr_ret >>

vfVars == << vf_content, vf_value, vf_written, vf_ret >>

metaVars == << statCalls, listCalls, firstStat, firstList >>

envVars == << src_size, src_gen, src_dir, callers, recording >>

vars == << envVars, cacheVars, thr, histVars, metaVars, rgVars, vfVars, trVars >>

\* ---------------------------------------------------------------- UnderlyingFs
\* the byte at offset i of the source file in version g (never the zero
\* filler of a pre-sized data store)
SrcByte(g, i) == 10 * (g + 1) + i

SrcContent == [ i \in 1 .. src_size |-> SrcByte(src_gen, i - 1) ]

\* os.stat / os.listdir / open succeed on these paths only
ufs_exists(p) == p = FilePath \/ (p = DirPath /\ src_dir)

\* UnderlyingFs.getattr: FuseStat(os.stat(...))
ufs_getattr(p) ==
    [ st_size  |-> IF p = FilePath THEN src_size ELSE 0,
      st_mtime |-> src_gen,
      st_isdir |-> (p = DirPath) ]

\* os.path.isdir(real_path)
ufs_isdir(p) == p = DirPath /\ src_dir

\* os.listdir(real_path) of a directory
ufs_listdir(p) == IF src_gen = 0 THEN << >> ELSE << "x" >>

\* UnderlyingFs.readdir: '.', '..' if isdir said so, then the names os.listdir
\* returned
ufs_readdir(isdir, names) == (IF isdir THEN << ".", ".." >> ELSE << >>) \o names

\* UnderlyingFs.read: f.seek(offset); f.read(size), short at end of file
ufs_read(p, size, offset) ==
    SubSeq(SrcContent, offset + 1, Min(offset + size, src_size))

\* ------------------------------------------------------------ file primitives
\* faulty variant of WriteAt: the write without the seek
WriteAt_noseek(data, pos, bytes) ==
    [ i \in 1 .. Max(Len(data), Len(bytes)) |->
        IF i <= Len(bytes) THEN bytes[i] ELSE data[i] ]

\* f.seek(pos); f.write(bytes) on a file opened 'r+b'
WriteAt(data, pos, bytes) ==
    IF bytes = << >> THEN data
    ELSE [ i \in 1 .. Max(Len(data), pos + Len(bytes)) |->
             IF i > pos /\ i <= pos + Len(bytes) THEN bytes[i - pos]
             ELSE IF i <= Len(data) THEN data[i]
             ELSE 0 ]

\* a record file that open(..., 'wb') has created or emptied and pickle.dump
\* has not completed: it exists, pickle.load of it raises
Torn == << 0, 0 >>

IsTorn(rec) == Len(rec) = 2

\* f.seek(offset); f.read(size) on the data store
ReadAt(data, size, offset) == SubSeq(data, offset + 1, Min(offset + size, Len(data)))

\* the byte a file holds at an offset, if any
ByteAt(data, o) == IF o < Len(data) THEN Some(data[o + 1]) ELSE None


\* --------------------------------------------------------------- virtual files
\* A VirtualFileFS holding two SimpleVirtualFile: "ro" made without
\* callback_on_change, "rw" made with one that keeps the value for the next
\* callback_on_read.
VfNames == { "ro", "rw" }

\* what callback_on_read returns at first
VfInitial == << "a", "b" >>

\* SimpleVirtualFile.is_read_only: callback_on_change == None
is_read_only(f) == f = "ro"

\* SimpleVirtualFile._get_content: self.content once populated
get_content(f) == IF vf_content[f] = None THEN vf_value[f] ELSE vf_content[f][1]

\* content[offset:offset+len(buf)] = buf on a list
slice_assign(content, offset, buf) ==
    SubSeq(content, 1, Min(offset, Len(content)))
        \o buf
        \o SubSeq(content, Min(offset + Len(buf), Len(content)) + 1, Len(content))

\* ------------------------------------------------------------- the cache tree
\* A source directory /d that holds a file named cache.stat, a directory
\* named cache.list and a file x. A path is the sequence of its components.
TreeNames == { "d", "cache.stat", "cache.list", "x" }

TreePaths == { << "d" >>, << "d", "cache.stat" >>, << "d", "cache.list" >>, << "d", "x" >> }

\* os.path.isdir at the source
tree_isdir(p) == p \in { << "d" >>, << "d", "cache.list" >> }

\* locations under the cache directory, down to the records of those paths
TreeLocs ==
    { << "d" >> }
        \cup { << "d", a >> : a \in TreeNames }
        \cup { << "d", a, b >> : a \in TreeNames, b \in TreeNames }

\* what a location holds: nothing, a directory, or a file with a pickle
NoNode == [ kind |-> "none", content |-> << >> ]

DirNode == [ kind |-> "dir", content |-> << >> ]

FileNode(content) == [ kind |-> "file", content |-> content ]

\* Cacher._get_cache_dir: os.path.join(self.cachedir, path[1:], file)
get_cache_loc(p, file) == p \o << file >>

\* os.makedirs: every missing directory down to loc is made; raises when one
\* of them is there as a file
makedirs_ok(loc) == \A i \in 1 .. Len(loc) : tree[SubSeq(loc, 1, i)].kind # "file"

makedirs(loc) ==
    [ l \in TreeLocs |->
        IF \E i \in 1 .. Len(loc) : l = SubSeq(loc, 1, i) THEN DirNode ELSE tree[l] ]

\* Cacher._mkdir: if not os.path.exists(path): os.makedirs(path)
mkdir_ok(loc) == tree[loc].kind # "none" \/ makedirs_ok(loc)

mkdir(loc) == IF tree[loc].kind # "none" THEN tree ELSE makedirs(loc)

\* open(loc, 'wb') in a tree t: the parent has to be a directory and loc
\* must not be one
open_wb_ok(t, loc) ==
    /\ t[SubSeq(loc, 1, Len(loc) - 1)].kind = "dir"
    /\ t[loc].kind # "dir"

\* ------------------------------------------------------------------- requests
Threads == 1 .. MaxThreads

IdleThread ==
    [ pc |-> "idle", op |-> "none", path |-> "", offset |-> 0, size |-> 0,
      cached_blocks |-> Ranges, blocks_to_read |-> << >>, blk |-> 0,
      result |-> << >>, calls |-> << >>, cov0 |-> Ranges, sub |-> FALSE,
      isdir |-> FALSE, src_calls |-> 0, flags |-> 0, exc |-> "" ]

\* where a handler is between being called by the FUSE loop and its reply
Running == { "run", "list", "load", "create", "fetch", "dump", "serve", "ret", "err" }

\* faulty variant of requested_range: the size taken for the end
requested_range_size(r) == Range(r.offset, r.size)

\* the range a read request names
requested_range(r) == Range(r.offset, r.offset + r.size)

\* the offsets a read request asks for
ReqSet(r) == r.offset .. (r.offset + r.size - 1)

\* offsets some successful read has asked for
OkRange(p) == { o \in Offsets : okBytes[p][o] # None }

\* An empty cache directory (Cacher.__init__), no request, empty histories
InitCache ==
    /\ cache_dirs = { }
    /\ cache_stat = [ p \in Paths |-> None ]
    /\ cache_list = [ p \in Paths |-> None ]
    /\ cache_data = [ p \in Paths |-> None ]
    /\ cache_range = [ p \in Paths |-> None ]
    /\ thr = [ t \in Threads |-> IdleThread ]
    /\ okBytes = [ p \in Paths |-> [ o \in Offsets |-> None ] ]
    /\ fetched = [ p \in Paths |-> [ o \in Offsets |-> None ] ]
    /\ fetchCount = [ p \in Paths |-> [ o \in Offsets |-> 0 ] ]
    /\ issued = [ p \in Paths |-> { } ]
    /\ overlapped = [ p \in Paths |-> FALSE ]
    /\ failed = [ p \in Paths |-> FALSE ]
    /\ nreads = 0
    /\ concurrent = [ p \in Paths |-> FALSE ]
    /\ statCalls = [ p \in Paths |-> 0 ]
    /\ listCalls = [ p \in Paths |-> 0 ]
    /\ firstStat = [ p \in Paths |-> None ]
    /\ firstList = [ p \in Paths |-> None ]
    /\ rg = Ranges
    /\ rg_added = { }
    /\ rg_prev = Ranges
    /\ rg_op = "none"
    /\ rg_arg = Range(0, 0)
    /\ rg_result = << >>
    /\ rg_calls = 0
    /\ vf_content = [ f \in VfNames |-> None ]
    /\ vf_value = [ f \in VfNames |-> VfInitial ]
    /\ vf_written = [ f \in VfNames |-> FALSE ]
    /\ vf_ret = << "none", "", "" >>
    /\ tree = [ l \in TreeLocs |-> NoNode ]
    /\ tr_ret = << "none", << >>, << >> >>

\* A source file of any size, one caller, an empty cache.
Init ==
    /\ src_size \in 0 .. MaxSize
    /\ src_gen = 0
    /\ src_dir = TRUE
    /\ callers = { 1 }
    /\ recording = FALSE
    /\ InitCache

\* The recorded histories of a path are kept while every read issued for it
\* so far names a range disjoint from the others'.
Recorded(p) == recording /\ ~overlapped[p]

\* another caller has a read of some bytes of path p outstanding
Outstanding(t, p) ==
    \E u \in Threads \ { t } :
        thr[u].pc # "idle" /\ thr[u].op = "read" /\ thr[u].path = p /\ thr[u].size > 0

\* A caller issues a request to the mounted filesystem.
Submit(t, op, p, off, sz) ==
    /\ t \in callers
    /\ thr[t].pc = "idle"
    /\ recording => nreads < MaxReads
    /\ nreads' = IF recording THEN nreads + 1 ELSE nreads
    /\ thr' = [ thr EXCEPT ![t] =
                  [ IdleThread EXCEPT !.pc = "pending", !.op = op, !.path = p,
                      !.offset = off, !.size = sz,
                      !.sub = (op = "read" /\ off .. (off + sz - 1) \subseteq OkRange(p)) ] ]
    /\ IF Recorded(p) /\ op = "read"
       THEN IF (off .. (off + sz - 1)) \cap issued[p] # { }
            THEN /\ overlapped' = [ overlapped EXCEPT ![p] = TRUE ]
                 /\ issued' = [ issued EXCEPT ![p] = { } ]
                 /\ fetchCount' = [ fetchCount EXCEPT ![p] = [ o \in Offsets |-> 0 ] ]
                 /\ failed' = [ failed EXCEPT ![p] = FALSE ]
                 /\ concurrent' = [ concurrent EXCEPT ![p] = FALSE ]
            ELSE /\ issued' = [ issued EXCEPT ![p] = @ \cup (off .. (off + sz - 1)) ]
                 /\ concurrent' = [ concurrent EXCEPT ![p] = @ \/ (sz > 0 /\ Outstanding(t, p)) ]
                 /\ UNCHANGED << overlapped, fetchCount, failed >>
       ELSE UNCHANGED << issued, overlapped, fetchCount, failed, concurrent >>
    /\ UNCHANGED << envVars, cacheVars, okBytes, fetched, metaVars, rgVars, vfVars, trVars >>

\* A read of any range of the file, or of the first byte of the missing
\* path (such a read fails before its offset and size matter).
SubmitRead(t) ==
    \/ \E off \in 0 .. MaxOff, sz \in 0 .. MaxLen : Submit(t, "read", FilePath, off, sz)
    \/ Submit(t, "read", MissingPath, 0, 1)

SubmitGetattr(t) == \E p \in Paths : Submit(t, "getattr", p, 0, 0)

SubmitReaddir(t) == \E p \in Paths : Submit(t, "readdir", p, 0, 0)

\* faulty variant of Serialized: the FUSE loop left multi-threaded
Serialized_multithreaded(t) == TRUE

\* PersistentCacheFs.__init__ parses '-s': the FUSE loop is single-threaded,
\* so a handler starts only when no other handler is inside Cacher.
Serialized(t) == \A u \in Threads \ { t } : thr[u].pc \notin Running

\* The FUSE loop takes a request and calls PersistentCacheFs.read / getattr /
\* readdir, which delegate to the Cacher.
Dispatch(t) ==
    /\ thr[t].pc = "pending"
    /\ Serialized(t)
    /\ thr' = [ thr EXCEPT ![t].pc = IF thr[t].op = "read" THEN "load" ELSE "run" ]
    /\ UNCHANGED << envVars, cacheVars, histVars, metaVars, rgVars, vfVars, trVars >>

\* faulty variant of getattr_ok: the source's stat of a missing path does not raise
getattr_ok_always(p) == TRUE

\* Cacher.getattr as a function of the cache: whether it succeeds, what it
\* returns and what it leaves in cache.stat and the cache directories
getattr_ok(p) == IF cache_stat[p] # None THEN ~IsTorn(cache_stat[p]) ELSE ufs_exists(p)

\* faulty variant of getattr_result: the source is asked every time
getattr_result_fresh(p) == ufs_getattr(p)

getattr_result(p) == IF cache_stat[p] # None THEN cache_stat[p][1] ELSE ufs_getattr(p)

getattr_stat(p) ==
    IF cache_stat[p] # None THEN cache_stat
    ELSE [ cache_stat EXCEPT ![p] = Some(ufs_getattr(p)) ]

getattr_dirs(p) == IF cache_stat[p] # None THEN cache_dirs ELSE cache_dirs \cup { p }

\* what a failing Cacher.getattr raises: pickle.load on a record that is not
\* a whole pickle, or os.stat on a path the source does not hold
getattr_exc(p) == IF cache_stat[p] # None THEN "EOFError" ELSE "OSError"

\* Cacher._get_cache_dir, with which read, getattr and readdir begin: what
\* 'if path[0] != "/": raise ValueError' raises, "" when it passes. path[0]
\* of the empty string raises IndexError.
get_cache_dir_exc(p) ==
    IF Len(Spelling(p)) = 0 THEN "IndexError"
    ELSE IF Spelling(p)[1] # "/" THEN "ValueError"
    ELSE ""

\* the calls of the source's getattr a successful Cacher.getattr makes
getattr_calls(p) == IF cache_stat[p] # None THEN 0 ELSE 1

\* history of a successful Cacher.getattr: the successful source stats of the
\* path, and what its first successful getattr returned
CountStat(p) == [ statCalls EXCEPT ![p] = Min(@ + getattr_calls(p), 2) ]

FirstStat(p) == [ firstStat EXCEPT ![p] = IF @ = None THEN Some(getattr_result(p)) ELSE @ ]

\* Cacher.getattr
Getattr(t) ==
    /\ thr[t].pc = "run"
    /\ thr[t].op = "getattr"
    /\ LET p == thr[t].path
       IN  IF get_cache_dir_exc(p) # ""
           THEN /\ thr' = [ thr EXCEPT ![t].pc = "err", ![t].exc = get_cache_dir_exc(p) ]
                /\ UNCHANGED << cache_stat, cache_dirs, statCalls, firstStat >>
           ELSE IF getattr_ok(p)
           THEN /\ cache_stat' = getattr_stat(p)
                /\ cache_dirs' = getattr_dirs(p)
                /\ thr' = [ thr EXCEPT ![t].pc = "ret", ![t].result = Some(getattr_result(p)),
                                       ![t].src_calls = getattr_calls(p) ]
                /\ statCalls' = CountStat(p)
                /\ firstStat' = FirstStat(p)
           ELSE /\ thr' = [ thr EXCEPT ![t].pc = "err", ![t].exc = getattr_exc(p) ]
                /\ UNCHANGED << cache_stat, cache_dirs, statCalls, firstStat >>
    /\ UNCHANGED << envVars, cache_list, cache_data, cache_range, histVars, listCalls,
                    firstList, rgVars, vfVars, trVars >>

\* faulty variant of list_cached: a record holding no names taken for none
list_cached_nonempty(p) == cache_list[p] # None /\ cache_list[p][1] # << >>

\* os.path.exists(cache.list)
list_cached(p) == cache_list[p] # None

\* Cacher.readdir: the listing is served from cache.list if that exists;
\* otherwise UnderlyingFs.readdir starts with os.path.isdir
Readdir(t) ==
    /\ thr[t].pc = "run"
    /\ thr[t].op = "readdir"
    /\ LET p == thr[t].path
       IN  IF get_cache_dir_exc(p) # ""
           THEN thr' = [ thr EXCEPT ![t].pc = "err", ![t].exc = get_cache_dir_exc(p) ]
           ELSE IF list_cached(p)
           THEN IF IsTorn(cache_list[p])
                THEN thr' = [ thr EXCEPT ![t].pc = "err", ![t].exc = "EOFError" ]
                ELSE thr' = [ thr EXCEPT ![t].pc = "ret", ![t].result = cache_list[p] ]
           ELSE thr' = [ thr EXCEPT ![t].pc = "list", ![t].isdir = ufs_isdir(p) ]
    /\ UNCHANGED << envVars, cacheVars, histVars, metaVars, rgVars, vfVars, trVars >>

\* Cacher.readdir, on a path with no cache.list: os.listdir of the source,
\* which raises unless the path is a directory by now, then the listing is
\* persisted
ReaddirList(t) ==
    /\ thr[t].pc = "list"
    /\ LET p == thr[t].path
           result == ufs_readdir(thr[t].isdir, ufs_listdir(p))
       IN  IF ufs_isdir(p)
           THEN /\ cache_list' = [ cache_list EXCEPT ![p] = Some(result) ]
                /\ cache_dirs' = cache_dirs \cup { p }
                /\ thr' = [ thr EXCEPT ![t].pc = "ret", ![t].result = Some(result),
                                       ![t].src_calls = 1 ]
                /\ listCalls' = [ listCalls EXCEPT ![p] = Min(@ + 1, 2) ]
                /\ firstList' = [ firstList EXCEPT
                                    ![p] = IF @ = None THEN Some(result) ELSE @ ]
           ELSE /\ thr' = [ thr EXCEPT ![t].pc = "err", ![t].exc = "OSError" ]
                /\ UNCHANGED << cache_list, cache_dirs, listCalls, firstList >>
    /\ UNCHANGED << envVars, cache_stat, cache_data, cache_range, histVars, statCalls,
                    firstStat, rgVars, vfVars, trVars >>


\* ---------------------------------------------------------------- Cacher.read
\* faulty variant of load_cached_blocks: the persisted record is ignored
load_cached_blocks_fresh(p) == Ranges

\* the Ranges object unpickled from cache.data.range, or a new one
load_cached_blocks(p) == IF cache_range[p] # None THEN cache_range[p][1] ELSE Ranges

\* Cacher.read, up to the gap computation; pickle.load raises on a record
\* that is not a whole pickle
ReadLoad(t) ==
    /\ thr[t].pc = "load"
    /\ IF get_cache_dir_exc(thr[t].path) # ""
       THEN thr' = [ thr EXCEPT ![t].pc = "err", ![t].exc = get_cache_dir_exc(thr[t].path) ]
       ELSE IF IsTorn(cache_range[thr[t].path])
       THEN thr' = [ thr EXCEPT ![t].pc = "err", ![t].exc = "EOFError" ]
       ELSE LET cached_blocks == load_cached_blocks(thr[t].path)
            IN  thr' = [ thr EXCEPT ![t].pc = "create",
                            ![t].cached_blocks = cached_blocks,
                            ![t].cov0 = cached_blocks,
                            ![t].blocks_to_read =
                                get_uncovered_portions(cached_blocks, requested_range(thr[t])) ]
    /\ UNCHANGED << envVars, cacheVars, histVars, metaVars, rgVars, vfVars, trVars >>

\* a file of size zero bytes: f.seek(size - 1); f.write('\0')
blank_file(size) == [ i \in 1 .. size |-> 0 ]

\* faulty variant of data_store_missing: the data store is always recreated
data_store_missing_always(p) == TRUE

\* not os.path.exists(cache_data)
data_store_missing(p) == cache_data[p] = None

\* faulty variant of after_create: the data store opened for update and the
\* coverage dumped although there is no block to read
after_create_dump(r) == IF Len(r.blocks_to_read) > 0 THEN "fetch" ELSE "dump"

\* faulty variant of after_create: the loop over blocks_to_read is skipped
after_create_skipfetch(r) == "serve"

\* where the read goes once the data store exists
after_create(r) == IF Len(r.blocks_to_read) > 0 THEN "fetch" ELSE "serve"

\* Cacher.read: create the data store if it does not exist. open(..., 'wb')
\* leaves an empty file; seek(st_size - 1) raises when st_size is 0.
ReadCreate(t) ==
    /\ thr[t].pc = "create"
    /\ LET p == thr[t].path
       IN  IF ~data_store_missing(p)
           THEN /\ thr' = [ thr EXCEPT ![t].pc = after_create(thr[t]), ![t].blk = 1 ]
                /\ UNCHANGED << cache_stat, cache_dirs, cache_data, statCalls, firstStat >>
           ELSE IF ~getattr_ok(p)
           THEN /\ thr' = [ thr EXCEPT ![t].pc = "err", ![t].exc = getattr_exc(p) ]
                /\ UNCHANGED << cache_stat, cache_dirs, cache_data, statCalls, firstStat >>
           ELSE /\ cache_stat' = getattr_stat(p)
                /\ statCalls' = CountStat(p)
                /\ firstStat' = FirstStat(p)
                /\ cache_dirs' = getattr_dirs(p) \cup { p }
                /\ IF getattr_result(p).st_size = 0
                   THEN /\ cache_data' = [ cache_data EXCEPT ![p] = Some(<< >>) ]
                        /\ thr' = [ thr EXCEPT ![t].pc = "err", ![t].exc = "IOError" ]
                   ELSE /\ cache_data' = [ cache_data EXCEPT
                                             ![p] = Some(blank_file(getattr_result(p).st_size)) ]
                        /\ thr' = [ thr EXCEPT ![t].pc = after_create(thr[t]), ![t].blk = 1 ]
    /\ UNCHANGED << envVars, cache_list, cache_range, histVars, listCalls, firstList,
                    rgVars, vfVars, trVars >>

\* history: one more source read of every offset of a block
CountFetch(p, block) ==
    [ fetchCount EXCEPT ![p] =
        [ o \in Offsets |-> IF o \in RangeSet(block) THEN Min(@[o] + 1, 2) ELSE @[o] ] ]

\* faulty variant of coverage_on_error: the coverage held in memory is
\* persisted on the way out
coverage_on_error_dump(p, cached_blocks) == [ cache_range EXCEPT ![p] = Some(cached_blocks) ]

\* cache.data.range once the source's read has raised: the exception leaves
\* the loop before pickle.dump, the record stays as it was
coverage_on_error(p, cached_blocks) == cache_range

\* Cacher.read: one turn of the loop over blocks_to_read. The source's read
\* either raises, which ends the read before anything is persisted, or
\* returns the block's bytes (fewer at end of file).
ReadFetch(t) ==
    /\ thr[t].pc = "fetch"
    /\ LET p == thr[t].path
           block == thr[t].blocks_to_read[thr[t].blk]
           block_data == ufs_read(p, RangeSize(block), block[1])
       IN  /\ fetchCount' = IF Recorded(p) THEN CountFetch(p, block) ELSE fetchCount
           /\ \/ /\ thr' = [ thr EXCEPT ![t].pc = "err", ![t].exc = "IOError" ]
                 /\ cache_range' = coverage_on_error(p, thr[t].cached_blocks)
                 /\ UNCHANGED << cache_data, fetched >>
              \/ /\ UNCHANGED cache_range
                 /\ thr' = [ thr EXCEPT
                               ![t].cached_blocks = add_range(@, block),
                               ![t].calls = Append(@, block),
                               ![t].blk = @ + 1,
                               ![t].pc = IF thr[t].blk = Len(thr[t].blocks_to_read)
                                         THEN "dump" ELSE "fetch" ]
                 /\ cache_data' = [ cache_data EXCEPT
                                      ![p] = Some(WriteAt(@[1], block[1], block_data)) ]
                 /\ fetched' = [ fetched EXCEPT ![p] =
                                   [ o \in Offsets |->
                                       IF o \in RangeSet(block)
                                       THEN Some(ByteAt(block_data, o - block[1]))
                                       ELSE @[o] ] ]
    /\ UNCHANGED << envVars, cache_dirs, cache_stat, cache_list,
                    okBytes, issued, overlapped, failed, nreads, concurrent, metaVars,
                    rgVars, vfVars, trVars >>

\* Cacher.read: pickle.dump(cached_blocks) after the loop
ReadDump(t) ==
    /\ thr[t].pc = "dump"
    /\ cache_range' = [ cache_range EXCEPT ![thr[t].path] = Some(thr[t].cached_blocks) ]
    /\ thr' = [ thr EXCEPT ![t].pc = "serve" ]
    /\ UNCHANGED << envVars, cache_dirs, cache_stat, cache_list, cache_data,
                    histVars, metaVars, rgVars, vfVars, trVars >>

\* Cacher.read: the result is read from the data store
ReadServe(t) ==
    /\ thr[t].pc = "serve"
    /\ thr' = [ thr EXCEPT ![t].pc = "ret",
                  ![t].result = ReadAt(cache_data[thr[t].path][1], thr[t].size, thr[t].offset) ]
    /\ UNCHANGED << envVars, cacheVars, histVars, metaVars, rgVars, vfVars, trVars >>

\* what a returned read holds for an offset of its range
ResultAt(r, o) == ByteAt(r.result, o - r.offset)

\* The caller takes the reply (the returned value, or the error).
Finish(t) ==
    /\ thr[t].pc \in { "ret", "err" }
    /\ thr' = [ thr EXCEPT ![t] = IdleThread ]
    /\ IF thr[t].op = "read" /\ thr[t].pc = "ret"
       THEN okBytes' = [ okBytes EXCEPT ![thr[t].path] =
                           [ o \in Offsets |->
                               IF o \in ReqSet(thr[t])
                               THEN Some(ResultAt(thr[t], o))
                               ELSE @[o] ] ]
       ELSE UNCHANGED okBytes
    /\ IF thr[t].op = "read" /\ thr[t].pc = "err" /\ Recorded(thr[t].path)
       THEN failed' = [ failed EXCEPT ![thr[t].path] = TRUE ]
       ELSE UNCHANGED failed
    /\ UNCHANGED << envVars, cacheVars, fetched, fetchCount, issued, overlapped, nreads,
                    concurrent, metaVars, rgVars, vfVars, trVars >>

\* The source tree changes behind the cache: other content, mtime and listing.
SourceChange ==
    /\ src_gen' = 1 - src_gen
    /\ UNCHANGED << src_size, src_dir, callers, recording, cacheVars, thr, histVars,
                    metaVars, rgVars, vfVars, trVars >>

Next ==
    \/ \E t \in Threads : SubmitRead(t)
    \/ \E t \in Threads : SubmitGetattr(t)
    \/ \E t \in Threads : SubmitReaddir(t)
    \/ \E t \in Threads : Dispatch(t)
    \/ \E t \in Threads : Getattr(t)
    \/ \E t \in Threads : Readdir(t)
    \/ \E t \in Threads : ReaddirList(t)
    \/ \E t \in Threads : ReadLoad(t)
    \/ \E t \in Threads : ReadCreate(t)
    \/ \E t \in Threads : ReadFetch(t)
    \/ \E t \in Threads : ReadDump(t)
    \/ \E t \in Threads : ReadServe(t)
    \/ \E t \in Threads : Finish(t)
    \/ SourceChange

Spec == Init /\ [][Next]_vars

\* ------------------------------------------- concurrent callers, recorded
\* Every caller issues reads, MaxReads in all, the source does not change,
\* and the source records which offsets are read from it.
InitConc ==
    /\ src_size \in 0 .. MaxSize
    /\ src_gen = 0
    /\ src_dir = TRUE
    /\ callers = Threads
    /\ recording = TRUE
    /\ InitCache

NextConc ==
    \/ \E t \in Threads : SubmitRead(t)
    \/ \E t \in Threads : Dispatch(t)
    \/ \E t \in Threads : ReadLoad(t)
    \/ \E t \in Threads : ReadCreate(t)
    \/ \E t \in Threads : ReadFetch(t)
    \/ \E t \in Threads : ReadDump(t)
    \/ \E t \in Threads : ReadServe(t)
    \/ \E t \in Threads : Finish(t)

SpecConc == InitConc /\ [][NextConc]_vars

\* ------------------------------------------- Cacher called with any string
\* Cacher.read, getattr or readdir called with a path that lacks the leading
\* slash.
SubmitBadPath(t) ==
    /\ t \in callers
    /\ thr[t].pc = "idle"
    /\ \E p \in BadPaths, op \in { "read", "getattr", "readdir" } :
        thr' = [ thr EXCEPT ![t] =
                   [ IdleThread EXCEPT !.pc = "pending", !.op = op, !.path = p,
                                       !.size = IF op = "read" THEN 1 ELSE 0 ] ]
    /\ UNCHANGED << envVars, cacheVars, histVars, metaVars, rgVars, vfVars, trVars >>

NextPath ==
    \/ \E t \in Threads : SubmitBadPath(t)
    \/ \E t \in Threads : SubmitRead(t)
    \/ \E t \in Threads : SubmitGetattr(t)
    \/ \E t \in Threads : SubmitReaddir(t)
    \/ \E t \in Threads : Dispatch(t)
    \/ \E t \in Threads : Getattr(t)
    \/ \E t \in Threads : Readdir(t)
    \/ \E t \in Threads : ReaddirList(t)
    \/ \E t \in Threads : ReadLoad(t)
    \/ \E t \in Threads : ReadCreate(t)
    \/ \E t \in Threads : ReadFetch(t)
    \/ \E t \in Threads : ReadDump(t)
    \/ \E t \in Threads : ReadServe(t)
    \/ \E t \in Threads : Finish(t)

SpecPath == Init /\ [][NextPath]_vars

\* ------------------------------------------------------ PersistentCacheFs.open
\* a & b and a | b on non-negative integers
RECURSIVE BitAnd(_, _)
BitAnd(a, b) ==
    IF a = 0 \/ b = 0 THEN 0
    ELSE (a % 2) * (b % 2) + 2 * BitAnd(a \div 2, b \div 2)

RECURSIVE BitOr(_, _)
BitOr(a, b) ==
    IF a = 0 THEN b
    ELSE IF b = 0 THEN a
    ELSE Max(a % 2, b % 2) + 2 * BitOr(a \div 2, b \div 2)

\* the access modes of os, and errno.EACCES
O_RDONLY == 0

O_WRONLY == 1

O_RDWR == 2

EACCES == 13

\* flags a caller passes to open: every value of the two access-mode bits,
\* alone or with O_CREAT (64) or O_TRUNC (512)
OpenFlags == { a + b : a \in 0 .. 3, b \in { 0, 64, 512 } }

\* faulty variant of access_flags: O_RDWR left out of the mask
access_flags_wronly == BitOr(O_RDONLY, O_WRONLY)

access_flags == BitOr(BitOr(O_RDONLY, O_WRONLY), O_RDWR)

\* what PersistentCacheFs.open returns
open_result(flags) == IF BitAnd(flags, access_flags) # O_RDONLY THEN 0 - EACCES ELSE 0

SubmitOpen(t) ==
    /\ t \in callers
    /\ thr[t].pc = "idle"
    /\ \E p \in Paths, flags \in OpenFlags :
        thr' = [ thr EXCEPT ![t] =
                   [ IdleThread EXCEPT !.pc = "pending", !.op = "open", !.path = p,
                                       !.flags = flags ] ]
    /\ UNCHANGED << envVars, cacheVars, histVars, metaVars, rgVars, vfVars, trVars >>

\* PersistentCacheFs.open
Open(t) ==
    /\ thr[t].pc = "run"
    /\ thr[t].op = "open"
    /\ thr' = [ thr EXCEPT ![t].pc = "ret", ![t].result = Some(open_result(thr[t].flags)) ]
    /\ UNCHANGED << envVars, cacheVars, histVars, metaVars, rgVars, vfVars, trVars >>

\* Files are opened, and attributes and listings asked for.
NextOpen ==
    \/ \E t \in Threads : SubmitOpen(t)
    \/ \E t \in Threads : SubmitGetattr(t)
    \/ \E t \in Threads : SubmitReaddir(t)
    \/ \E t \in Threads : Dispatch(t)
    \/ \E t \in Threads : Open(t)
    \/ \E t \in Threads : Getattr(t)
    \/ \E t \in Threads : Readdir(t)
    \/ \E t \in Threads : ReaddirList(t)
    \/ \E t \in Threads : Finish(t)

SpecOpen == Init /\ [][NextOpen]_vars

\* --------------------------------------------------------------- VirtualFileFS
\* VirtualFileFS.open: read-only files refuse every access mode but O_RDONLY
VfsOpen(f) ==
    /\ \E flags \in OpenFlags :
        vf_ret' = << "open", f,
                     IF is_read_only(f) /\ BitAnd(flags, access_flags) # O_RDONLY
                     THEN "EACCES" ELSE "0" >>
    /\ UNCHANGED << vf_content, vf_value, vf_written >>
    /\ UNCHANGED << envVars, cacheVars, thr, histVars, metaVars, rgVars, trVars >>

\* VirtualFileFS.read: f.read(size, offset), which populates self.content
VfsRead(f) ==
    /\ vf_content' = [ vf_content EXCEPT ![f] = Some(get_content(f)) ]
    /\ vf_ret' = << "read", f, "data" >>
    /\ UNCHANGED << vf_value, vf_written >>
    /\ UNCHANGED << envVars, cacheVars, thr, histVars, metaVars, rgVars, trVars >>

\* VirtualFileFS.write: f.write(buf, offset), whatever is_read_only() says
VfsWrite(f) ==
    /\ \E offset \in 0 .. MaxVfLen, buf \in { << "X" >>, << "X", "Y" >> } :
        /\ Len(slice_assign(get_content(f), offset, buf)) <= MaxVfLen
        /\ vf_content' = [ vf_content EXCEPT
                             ![f] = Some(slice_assign(get_content(f), offset, buf)) ]
    /\ vf_written' = [ vf_written EXCEPT ![f] = TRUE ]
    /\ vf_ret' = << "write", f, "len" >>
    /\ UNCHANGED vf_value
    /\ UNCHANGED << envVars, cacheVars, thr, histVars, metaVars, rgVars, trVars >>

\* VirtualFileFS.truncate: f.truncate(size), whatever is_read_only() says
VfsTruncate(f) ==
    /\ \E size \in 0 .. MaxVfLen :
        vf_content' = [ vf_content EXCEPT
                          ![f] = Some(SubSeq(get_content(f), 1, Min(size, Len(get_content(f))))) ]
    /\ vf_written' = [ vf_written EXCEPT ![f] = TRUE ]
    /\ vf_ret' = << "truncate", f, "0" >>
    /\ UNCHANGED vf_value
    /\ UNCHANGED << envVars, cacheVars, thr, histVars, metaVars, rgVars, trVars >>

\* VirtualFileFS.flush: VirtualFile.flush returns None
VfsFlush(f) ==
    /\ vf_ret' = << "flush", f, "None" >>
    /\ UNCHANGED << vf_content, vf_value, vf_written >>
    /\ UNCHANGED << envVars, cacheVars, thr, histVars, metaVars, rgVars, trVars >>

\* VirtualFileFS.release: callback_on_change(self._get_content()), then the
\* content is dropped; calling the missing callback of a read-only file
\* raises TypeError after _get_content has populated the content
VfsRelease(f) ==
    /\ IF is_read_only(f)
       THEN /\ vf_content' = [ vf_content EXCEPT ![f] = Some(get_content(f)) ]
            /\ vf_ret' = << "release", f, "TypeError" >>
            /\ UNCHANGED << vf_value, vf_written >>
       ELSE /\ vf_value' = [ vf_value EXCEPT ![f] = get_content(f) ]
            /\ vf_content' = [ vf_content EXCEPT ![f] = None ]
            /\ vf_ret' = << "release", f, "None" >>
            /\ UNCHANGED vf_written
    /\ UNCHANGED << envVars, cacheVars, thr, histVars, metaVars, rgVars, trVars >>

InitVfs ==
    /\ src_size = 0
    /\ src_gen = 0
    /\ src_dir = TRUE
    /\ callers = { }
    /\ recording = FALSE
    /\ InitCache

NextVfs ==
    \/ \E f \in VfNames : VfsOpen(f)
    \/ \E f \in VfNames : VfsRead(f)
    \/ \E f \in VfNames : VfsWrite(f)
    \/ \E f \in VfNames : VfsTruncate(f)
    \/ \E f \in VfNames : VfsFlush(f)
    \/ \E f \in VfNames : VfsRelease(f)

SpecVfs == InitVfs /\ [][NextVfs]_vars

\* ------------------------------------------ records and directories in one tree
\* Cacher.getattr and Cacher.readdir on the cache tree: the record is loaded
\* if its location exists (open fails on a directory); otherwise the source
\* is asked, the cache directory of the path is made and the record written.
tree_lookup(op, file, p, source_ok) ==
    LET loc == get_cache_loc(p, file)
        result == << op, p >>
    IN  IF tree[loc].kind # "none"
        THEN /\ tr_ret' = << op, p, IF tree[loc].kind = "file" THEN tree[loc].content
                                     ELSE << "IOError" >> >>
             /\ UNCHANGED tree
        ELSE IF ~source_ok \/ ~mkdir_ok(p)
        THEN /\ tr_ret' = << op, p, << "OSError" >> >>
             /\ UNCHANGED tree
        ELSE IF open_wb_ok(mkdir(p), loc)
        THEN /\ tree' = [ mkdir(p) EXCEPT ![loc] = FileNode(result) ]
             /\ tr_ret' = << op, p, result >>
        ELSE /\ tree' = mkdir(p)
             /\ tr_ret' = << op, p, << "IOError" >> >>

TreeGetattr(p) ==
    /\ tree_lookup("getattr", "cache.stat", p, TRUE)
    /\ UNCHANGED << envVars, cacheVars, thr, histVars, metaVars, rgVars, vfVars >>

TreeReaddir(p) ==
    /\ tree_lookup("readdir", "cache.list", p, tree_isdir(p))
    /\ UNCHANGED << envVars, cacheVars, thr, histVars, metaVars, rgVars, vfVars >>

InitTree ==
    /\ src_size = 0
    /\ src_gen = 0
    /\ src_dir = TRUE
    /\ callers = { }
    /\ recording = FALSE
    /\ InitCache

NextTree ==
    \/ \E p \in TreePaths : TreeGetattr(p)
    \/ \E p \in TreePaths : TreeReaddir(p)

SpecTree == InitTree /\ [][NextTree]_vars

\* ------------------------------------------ the process killed while it writes
\* The process dies between open(cache.stat, 'wb') and the end of pickle.dump,
\* in Cacher.getattr called by the FUSE loop or by Cacher.read; the mount is
\* started again.
CrashStatWrite(t) ==
    /\ \/ thr[t].pc = "run" /\ thr[t].op = "getattr"
       \/ thr[t].pc = "create" /\ data_store_missing(thr[t].path)
    /\ cache_stat[thr[t].path] = None
    /\ ufs_exists(thr[t].path)
    /\ cache_dirs' = cache_dirs \cup { thr[t].path }
    /\ cache_stat' = [ cache_stat EXCEPT ![thr[t].path] = Torn ]
    /\ thr' = [ u \in Threads |-> IdleThread ]
    /\ UNCHANGED << envVars, cache_list, cache_data, cache_range, histVars, metaVars, rgVars, vfVars, trVars >>

\* The same between open(cache.list, 'wb') and the end of pickle.dump.
CrashListWrite(t) ==
    /\ thr[t].pc = "list"
    /\ ufs_isdir(thr[t].path)
    /\ cache_dirs' = cache_dirs \cup { thr[t].path }
    /\ cache_list' = [ cache_list EXCEPT ![thr[t].path] = Torn ]
    /\ thr' = [ u \in Threads |-> IdleThread ]
    /\ UNCHANGED << envVars, cache_stat, cache_data, cache_range, histVars, metaVars, rgVars, vfVars, trVars >>

\* The same between open(cache.data.range, 'wb'), which empties the record
\* the read loaded, and the end of pickle.dump.
CrashRangeWrite(t) ==
    /\ thr[t].pc = "dump"
    /\ cache_range' = [ cache_range EXCEPT ![thr[t].path] = Torn ]
    /\ thr' = [ u \in Threads |-> IdleThread ]
    /\ UNCHANGED << envVars, cache_dirs, cache_stat, cache_list, cache_data, histVars,
                    metaVars, rgVars, vfVars, trVars >>

NextCrash ==
    \/ \E t \in Threads : SubmitRead(t)
    \/ \E t \in Threads : SubmitGetattr(t)
    \/ \E t \in Threads : SubmitReaddir(t)
    \/ \E t \in Threads : Dispatch(t)
    \/ \E t \in Threads : Getattr(t)
    \/ \E t \in Threads : Readdir(t)
    \/ \E t \in Threads : ReaddirList(t)
    \/ \E t \in Threads : ReadLoad(t)
    \/ \E t \in Threads : ReadCreate(t)
    \/ \E t \in Threads : ReadFetch(t)
    \/ \E t \in Threads : ReadDump(t)
    \/ \E t \in Threads : ReadServe(t)
    \/ \E t \in Threads : Finish(t)
    \/ \E t \in Threads : CrashStatWrite(t)
    \/ \E t \in Threads : CrashListWrite(t)
    \/ \E t \in Threads : CrashRangeWrite(t)

SpecCrash == Init /\ [][NextCrash]_vars

\* ------------------------------------- metadata over a source that changes
\* The directory is removed from the source and made again, also between the
\* two steps of UnderlyingFs.readdir.
DirChange ==
    /\ src_dir' = ~src_dir
    /\ UNCHANGED << src_size, src_gen, callers, recording, cacheVars, thr, histVars,
                    metaVars, rgVars, vfVars, trVars >>

InitMeta ==
    /\ src_size \in 0 .. MaxSize
    /\ src_gen = 0
    /\ src_dir \in BOOLEAN
    /\ callers = { 1 }
    /\ recording = FALSE
    /\ InitCache

NextMeta ==
    \/ \E t \in Threads : SubmitGetattr(t)
    \/ \E t \in Threads : SubmitReaddir(t)
    \/ \E t \in Threads : Dispatch(t)
    \/ \E t \in Threads : Getattr(t)
    \/ \E t \in Threads : Readdir(t)
    \/ \E t \in Threads : ReaddirList(t)
    \/ \E t \in Threads : Finish(t)
    \/ SourceChange
    \/ DirChange

SpecMeta == InitMeta /\ [][NextMeta]_vars

\* ------------------------------------------------- a Ranges object on its own
InitRanges ==
    /\ src_size = 0
    /\ src_gen = 0
    /\ src_dir = TRUE
    /\ callers = { }
    /\ recording = FALSE
    /\ InitCache

\* Ranges.add_range with any non-empty range
RgAdd ==
    /\ rg_calls < MaxAdds
    /\ \E s \in 0 .. MaxPos, e \in 0 .. MaxPos :
        /\ s < e
        /\ rg' = add_range(rg, Range(s, e))
        /\ rg_prev' = rg
        /\ rg_added' = rg_added \cup RangeSet(Range(s, e))
        /\ rg_arg' = Range(s, e)
    /\ rg_op' = "add"
    /\ rg_calls' = rg_calls + 1
    /\ UNCHANGED rg_result
    /\ UNCHANGED << envVars, cacheVars, thr, histVars, metaVars, vfVars, trVars >>

\* Ranges.get_uncovered_portions with any range, empty ones included
RgQuery ==
    /\ rg_calls < MaxAdds
    /\ \E s \in 0 .. MaxPos, e \in 0 .. MaxPos :
        /\ s <= e
        /\ rg_arg' = Range(s, e)
        /\ rg_result' = get_uncovered_portions(rg, Range(s, e))
    /\ rg_op' = "query"
    /\ rg_calls' = rg_calls + 1
    /\ UNCHANGED << rg, rg_added, rg_prev >>
    /\ UNCHANGED << envVars, cacheVars, thr, histVars, metaVars, vfVars, trVars >>

NextRanges == RgAdd \/ RgQuery

SpecRanges == InitRanges /\ [][NextRanges]_vars


\* ===================================================================== claims
\* the offsets the persisted coverage record of a path covers
Coverage(p) == IF cache_range[p] = None THEN { } ELSE Covered(cache_range[p][1])

\* the maximal runs of consecutive offsets of a set, as ranges
MaxGaps(G) ==
    { r \in (0 .. (MaxOff + MaxLen + MaxPos)) \X (0 .. (MaxOff + MaxLen + MaxPos)) :
        /\ r[1] < r[2]
        /\ RangeSet(r) \subseteq G
        /\ (r[1] - 1) \notin G
        /\ r[2] \notin G }

\* a sequence lists the maximal runs of G, each once, in ascending order
ListsMaxGaps(seq, G) ==
    /\ Len(seq) = Cardinality(MaxGaps(G))
    /\ \A i \in 1 .. Len(seq) : seq[i] \in MaxGaps(G)
    /\ \A i \in 1 .. Len(seq) - 1 : seq[i][2] < seq[i + 1][1]

\* a read that has returned its result
Returned(t) == thr[t].op = "read" /\ thr[t].pc = "ret"

\* C1: a read of offsets that earlier successful reads of the path asked for
\* makes no call to the source's read and returns, offset by offset, what
\* those reads returned (a byte, or nothing past the end of the data).
C1_RereadFromCache ==
    \A t \in Threads :
        Returned(t) /\ thr[t].sub =>
            /\ thr[t].calls = << >>
            /\ \A o \in ReqSet(thr[t]) :
                okBytes[thr[t].path][o] = Some(ResultAt(thr[t], o))

\* a re-read returns the bytes of the first read although the source has
\* changed since
C1_Witness ==
    \E t \in Threads :
        /\ Returned(t) /\ thr[t].sub
        /\ thr[t].size = 2 /\ Len(thr[t].result) = 2
        /\ src_gen = 1
        /\ thr[t].result[1] = SrcByte(0, thr[t].offset)

\* C2: every offset of the persisted coverage of a path was fetched, and the
\* data store holds for it what the source returned for it then: that byte,
\* or no byte where the source returned none.
C2_CoveredDataIsFetched ==
    \A p \in Paths :
        cache_range[p] # None =>
            /\ cache_data[p] # None
            /\ \A o \in Coverage(p) :
                fetched[p][o] = Some(ByteAt(cache_data[p][1], o))

\* covered bytes of the other version of the source next to an uncovered offset that a
\* failed read has written
C2_Witness ==
    /\ src_gen = 1
    /\ \E o \in Coverage(FilePath) :
        fetched[FilePath][o] = Some(Some(SrcByte(0, o)))
    /\ \E o \in Offsets \ Coverage(FilePath) :
        ByteAt(cache_data[FilePath][1], o) = Some(SrcByte(1, o))

\* C3: every byte a read returns comes from an offset of the path's
\* persisted coverage.
C3_ReturnedBytesCovered ==
    \A t \in Threads :
        Returned(t) =>
            \A o \in ReqSet(thr[t]) :
                ResultAt(thr[t], o) # None => o \in Coverage(thr[t].path)

\* a read returns bytes while the data store still holds filler outside the
\* coverage
C3_Witness ==
    \E t \in Threads :
        /\ Returned(t)
        /\ Len(thr[t].result) >= 1
        /\ \E o \in Offsets \ Coverage(thr[t].path) :
            ByteAt(cache_data[thr[t].path][1], o) = Some(0)

\* C4: a read that returns has called the source's read exactly once per
\* maximal gap of its range in the coverage C it found, with that gap's start
\* and size, in ascending order, and the persisted coverage is then C united
\* with the range, in merged form.
C4_OneFetchPerGap ==
    \A t \in Threads :
        Returned(t) =>
            /\ ListsMaxGaps(thr[t].calls, ReqSet(thr[t]) \ Covered(thr[t].cov0))
            /\ Coverage(thr[t].path) = Covered(thr[t].cov0) \cup ReqSet(thr[t])
            /\ cache_range[thr[t].path] # None => IsCanonical(cache_range[thr[t].path][1])

\* coverage {[1,2)}, read of [0,3): fetches of [0,1) and of [2,3), coverage
\* {[0,3)}
C4_Witness ==
    \E t \in Threads :
        /\ Returned(t)
        /\ thr[t].cov0 = << Range(1, 2) >>
        /\ thr[t].offset = 0 /\ thr[t].size = 3
        /\ thr[t].calls = << Range(0, 1), Range(2, 3) >>
        /\ cache_range[thr[t].path] = Some(<< Range(0, 3) >>)

\* C5: no step shrinks the set of offsets the persisted coverage of a path
\* covers.
C5_CoverageNeverShrinks ==
    [][ \A p \in Paths :
          (IF cache_range[p] = None THEN { } ELSE Covered(cache_range[p][1]))
            \subseteq (IF cache_range'[p] = None THEN { } ELSE Covered(cache_range'[p][1])) ]_vars

\* a read has failed at its second gap, on a path with coverage
C5_Witness ==
    \E t \in Threads :
        /\ thr[t].op = "read" /\ thr[t].pc = "err"
        /\ Len(thr[t].calls) = 1
        /\ Coverage(thr[t].path) # { }


\* C6: after any sequence of add_range calls the Ranges object is sorted with
\* no two ranges overlapping or touching, it covers exactly the offsets of the
\* ranges added, and adding a range that was already covered leaves it as it
\* was.
C6_AddRangeMerges ==
    /\ IsCanonical(rg)
    /\ Covered(rg) = rg_added
    /\ rg_op = "add" /\ RangeSet(rg_arg) \subseteq Covered(rg_prev) => rg = rg_prev

\* an add_range that merged two ranges into one
C6_Witness ==
    /\ rg_op = "add"
    /\ Len(rg_prev) = 2
    /\ Len(rg) = 1

\* C7: get_uncovered_portions(q) lists the maximal runs of the offsets of q
\* that the Ranges object does not cover, each once, in ascending order:
\* nothing when q is covered or empty, q itself when q is disjoint from the
\* coverage.
C7_UncoveredPortions ==
    rg_op = "query" =>
        /\ ListsMaxGaps(rg_result, RangeSet(rg_arg) \ Covered(rg))
        /\ RangeSet(rg_arg) \subseteq Covered(rg) => rg_result = << >>
        /\ RangeSet(rg_arg) # { } /\ RangeSet(rg_arg) \cap Covered(rg) = { }
             => rg_result = << rg_arg >>

\* a query across a covered range in its middle yields the gap on each side
C7_Witness ==
    /\ rg_op = "query"
    /\ Len(rg_result) = 2
    /\ rg # Ranges

\* C8: for every path with cached attributes, every range of the persisted
\* coverage lies within [0, st_size).
C8_CoverageWithinSize ==
    \A p \in Paths :
        cache_stat[p] # None /\ cache_range[p] # None =>
            \A i \in 1 .. Len(cache_range[p][1]) :
                /\ cache_range[p][1][i][1] >= 0
                /\ cache_range[p][1][i][2] <= cache_stat[p][1].st_size

\* where a read is between loading the coverage record and persisting it
InFlight == { "create", "fetch", "dump" }

\* C9: no two reads of the same path are at the same time between loading
\* the coverage record and persisting it, and the coverage a read in that
\* stretch has loaded is the persisted one (its view is never stale).
C9_ReadsSerialized ==
    /\ \A t \in Threads, u \in Threads :
        t # u /\ thr[t].op = "read" /\ thr[u].op = "read" /\ thr[t].path = thr[u].path
          => ~(thr[t].pc \in InFlight /\ thr[u].pc \in InFlight)
    /\ \A t \in Threads :
        thr[t].op = "read" /\ thr[t].pc \in InFlight =>
            thr[t].cov0 = IF cache_range[thr[t].path] = None THEN Ranges
                          ELSE cache_range[thr[t].path][1]

\* one read of the file is fetching while another caller's read of the file
\* waits
C9_Witness ==
    \E t \in Threads, u \in Threads :
        /\ t # u
        /\ thr[t].op = "read" /\ thr[t].path = FilePath /\ thr[t].pc = "fetch"
        /\ thr[u].op = "read" /\ thr[u].path = FilePath /\ thr[u].pc = "pending"
        /\ thr[u].size > 0

\* every read issued so far has returned
AllReturned == \A t \in Threads : thr[t].pc \in { "idle", "ret" }

\* C10: while the reads issued for a path name pairwise disjoint ranges, the
\* source's read is called at most once for each offset, and once all of them
\* have returned the persisted coverage is the union of their ranges.
C10_DisjointReads ==
    \A p \in Paths :
        Recorded(p) =>
            /\ \A o \in Offsets : fetchCount[p][o] <= 1
            /\ AllReturned /\ ~failed[p] => Coverage(p) = issued[p]

\* reads of disjoint ranges of the file, one issued while another was
\* outstanding, have all returned
C10_Witness ==
    /\ Recorded(FilePath)
    /\ concurrent[FilePath]
    /\ ~failed[FilePath]
    /\ AllReturned
    /\ \A t \in Threads : thr[t].pc = "idle"
    /\ Cardinality(issued[FilePath]) >= 2

\* C11: when the source's read raises for a gap, the first or a later one,
\* the read ends in an error with no result, and that step leaves the data
\* store and the coverage record of every path as they were before the gap
\* was attempted; the record still covers what the read found when it began.
C11_FailedGapLeavesCache ==
    [][ \A t \in Threads :
          thr[t].pc = "fetch" /\ thr'[t].pc = "err" =>
              /\ cache_data' = cache_data
              /\ cache_range' = cache_range
              /\ thr'[t].result = << >>
              /\ load_cached_blocks(thr[t].path)' = thr[t].cov0 ]_vars

\* the read of [0,3) over coverage {[1,2)} has fetched [0,1) and failed at
\* [2,3): the byte of the first gap is in the data store, the record is as
\* the read found it
C11_Witness ==
    \E t \in Threads :
        /\ thr[t].op = "read" /\ thr[t].pc = "err"
        /\ thr[t].calls = << Range(0, 1) >>
        /\ thr[t].blocks_to_read = << Range(0, 1), Range(2, 3) >>
        /\ cache_range[thr[t].path] = Some(<< Range(1, 2) >>)
        /\ ByteAt(cache_data[thr[t].path][1], 0) = Some(SrcByte(src_gen, 0))

\* C12: a path the source does not hold has no cache directory, attributes
\* record, data store or coverage record, whatever getattr and read calls
\* were made for it, and no getattr or read of it returns: each one asks the
\* source again and fails.
C12_MissingPathNotCached ==
    \A p \in Paths :
        ~ufs_exists(p) =>
            /\ p \notin cache_dirs
            /\ cache_stat[p] = None
            /\ cache_data[p] = None
            /\ cache_range[p] = None
            /\ \A t \in Threads :
                thr[t].path = p /\ thr[t].op \in { "getattr", "read" } =>
                    thr[t].pc \in { "pending", "run", "load", "create", "err" }

\* a getattr of the missing path has failed in a cache that holds records
\* of the file
C12_Witness ==
    \E t \in Threads :
        /\ thr[t].op = "getattr" /\ thr[t].path = MissingPath /\ thr[t].pc = "err"
        /\ cache_stat[FilePath] # None
        /\ cache_data[FilePath] # None

\* a read of the missing path has failed
C12_WitnessRead ==
    \E t \in Threads :
        /\ thr[t].op = "read" /\ thr[t].path = MissingPath /\ thr[t].pc = "err"
        /\ cache_dirs # { }

\* C13: the source's stat and the source's listing each succeed at most once
\* for a path; every getattr (readdir) of the path that returns, returns what
\* the first successful one returned, whatever the source holds by then; and
\* once one has succeeded, no getattr (readdir) of the path is in a call of
\* the source or fails.
C13_CacheOnce ==
    /\ \A p \in Paths : statCalls[p] <= 1 /\ listCalls[p] <= 1
    /\ \A t \in Threads :
        /\ thr[t].op = "getattr" /\ thr[t].pc = "ret" =>
              /\ thr[t].result = firstStat[thr[t].path]
              /\ thr[t].src_calls = 1 => statCalls[thr[t].path] = 1
        /\ thr[t].op = "getattr" /\ thr[t].pc = "err" => firstStat[thr[t].path] = None
        /\ thr[t].op = "readdir" /\ thr[t].pc = "ret" =>
              /\ thr[t].result = firstList[thr[t].path]
              /\ thr[t].src_calls = 1 => listCalls[thr[t].path] = 1
        /\ thr[t].op = "readdir" /\ thr[t].pc \in { "list", "err" } =>
              firstList[thr[t].path] = None

\* a getattr of the directory returns the attributes of the first one, from
\* the cache, after the source changed and lost the directory
C13_Witness ==
    \E t \in Threads :
        /\ thr[t].op = "getattr" /\ thr[t].pc = "ret" /\ thr[t].path = DirPath
        /\ thr[t].src_calls = 0
        /\ thr[t].result[1].st_mtime # src_gen
        /\ ~src_dir

\* a readdir returns the names of the first one, from the cache, while the
\* source lists another name
C13_WitnessList ==
    \E t \in Threads :
        /\ thr[t].op = "readdir" /\ thr[t].pc = "ret"
        /\ thr[t].src_calls = 0
        /\ thr[t].result = Some(<< ".", ".." >>)
        /\ src_dir /\ ufs_listdir(thr[t].path) = << "x" >>

\* C14: a readdir asks the source only while the path has no listing record;
\* once a listing with no names is persisted, the record stays, the source's
\* listing is not called again and every readdir of the path returns the
\* empty listing.
C14_EmptyListingIsCached ==
    /\ \A t \in Threads :
        thr[t].op = "readdir" /\ thr[t].pc = "list" => cache_list[thr[t].path] = None
    /\ \A p \in Paths :
        firstList[p] = Some(<< >>) =>
            /\ cache_list[p] = Some(<< >>)
            /\ listCalls[p] = 1
            /\ \A t \in Threads :
                thr[t].op = "readdir" /\ thr[t].path = p =>
                    /\ thr[t].pc # "list"
                    /\ thr[t].pc = "ret" => thr[t].result = Some(<< >>)

\* the listing persisted for the directory has no names (the directory was
\* made between os.path.isdir and os.listdir); a later readdir returns it
\* from the cache while the source lists '.', '..' and a name
C14_Witness ==
    \E t \in Threads :
        /\ thr[t].op = "readdir" /\ thr[t].pc = "ret" /\ thr[t].path = DirPath
        /\ thr[t].src_calls = 0
        /\ thr[t].result = Some(<< >>)
        /\ cache_list[DirPath] = Some(<< >>)
        /\ src_dir /\ src_gen = 1

\* C15: whenever the process is killed while it writes cache.stat, cache.list
\* or cache.data.range, the record is afterwards whole or absent: no record
\* exists that pickle.load cannot read.
C15_NoTornRecord ==
    \A p \in Paths :
        /\ ~IsTorn(cache_stat[p])
        /\ ~IsTorn(cache_list[p])
        /\ ~IsTorn(cache_range[p])

\* C16: the step in which an open is handled returns 0 when the two
\* access-mode bits of its flags say read-only and minus EACCES when they say
\* anything else, and leaves every cache record as it was with no call of
\* the source counted.
C16_OpenReadOnly ==
    [][ \A t \in Threads :
          thr[t].op = "open" /\ thr[t].pc = "run" /\ thr'[t].pc # "run" =>
              /\ thr'[t].pc = "ret"
              /\ thr'[t].result =
                    Some(IF thr[t].flags % 4 = O_RDONLY THEN 0 ELSE 0 - EACCES)
              /\ thr'[t].src_calls = 0
              /\ UNCHANGED << cacheVars, metaVars >> ]_vars

\* an open for reading and writing of a path whose attributes are cached has
\* been refused
C16_Witness ==
    \E t \in Threads :
        /\ thr[t].op = "open" /\ thr[t].pc = "ret"
        /\ thr[t].flags = O_RDWR + 64
        /\ thr[t].result = Some(0 - EACCES)
        /\ cache_stat[thr[t].path] # None

\* an open for reading has succeeded on a path with no cache record
C16_WitnessReadOnly ==
    \E t \in Threads :
        /\ thr[t].op = "open" /\ thr[t].pc = "ret"
        /\ thr[t].flags = O_RDONLY + 512
        /\ thr[t].result = Some(0)
        /\ thr[t].path \notin cache_dirs

\* C17: the step in which a read, getattr or readdir of a path without the
\* leading slash is handled ends it with the invalid-argument error
\* (ValueError), with no call of the source, and leaves every cache record as
\* it was.
C17_BadPathInvalidArgument ==
    [][ \A t \in Threads :
          thr[t].path \in BadPaths /\ thr[t].pc \in { "run", "load" }
            /\ thr'[t].pc # thr[t].pc =>
              /\ thr'[t].pc = "err"
              /\ thr'[t].exc = "ValueError"
              /\ thr'[t].src_calls = 0 /\ thr'[t].calls = << >>
              /\ UNCHANGED << cacheVars, metaVars >> ]_vars

\* C18: whatever VirtualFileFS operations are made, neither write nor
\* truncate of a read-only virtual file has been invoked, and what the file
\* reads as is what it read as at first.
C18_ReadOnlyVirtualFile ==
    \A f \in VfNames :
        is_read_only(f) => ~vf_written[f] /\ get_content(f) = VfInitial

\* C19: the step of a read that finds no data store, on a path whose
\* attributes can be had, persists the attributes, creates a data store of
\* st_size bytes with no coverage record, and the read goes on to its
\* fetches or to serving; and no step leaves a data store shorter than the
\* st_size of the cached attributes.
C19_DataStoreCreated ==
    [][ /\ \A t \in Threads :
            thr[t].pc = "create" /\ thr'[t].pc # "create"
              /\ data_store_missing(thr[t].path) /\ getattr_ok(thr[t].path) =>
                /\ cache_stat'[thr[t].path] = Some(getattr_result(thr[t].path))
                /\ cache_data'[thr[t].path] # None
                /\ Len(cache_data'[thr[t].path][1]) = getattr_result(thr[t].path).st_size
                /\ cache_range'[thr[t].path] = None
                /\ thr'[t].pc \in { "fetch", "serve" }
        /\ \A p \in Paths :
            cache_data'[p] # None /\ cache_stat'[p] # None =>
                Len(cache_data'[p][1]) >= cache_stat'[p][1].st_size ]_vars

\* the range of a read was covered by the persisted coverage when the read
\* began
CoveredAtStart(t) ==
    IF thr[t].pc = "load"
    THEN ReqSet(thr[t]) \subseteq Coverage(thr[t].path)
    ELSE ReqSet(thr[t]) \subseteq Covered(thr[t].cov0)

\* C20: every step of a read whose range the persisted coverage of its path
\* covers, on a path whose data store exists, leaves every record of every
\* path as it was (data stores, coverage, attributes, listings, cache
\* directories), and the read makes no call of the source: no read of it, no
\* stat, no listing.
C20_CoveredReadChangesNothing ==
    [][ \A t \in Threads :
          thr[t].op = "read" /\ thr[t].pc \in { "load", "create", "fetch", "dump", "serve" }
            /\ thr'[t] # thr[t]
            /\ cache_data[thr[t].path] # None
            /\ CoveredAtStart(t) =>
              /\ UNCHANGED << cacheVars, metaVars >>
              /\ thr'[t].calls = << >>
              /\ thr'[t].pc \notin { "fetch", "err" } ]_vars

\* a read of two covered bytes has returned them with no call of the source,
\* in a cache that holds a listing of the directory as well
C20_Witness ==
    \E t \in Threads :
        /\ Returned(t)
        /\ thr[t].size = 2 /\ Len(thr[t].result) = 2
        /\ thr[t].blocks_to_read = << >>
        /\ thr[t].calls = << >>
        /\ ReqSet(thr[t]) \subseteq Covered(thr[t].cov0)
        /\ cache_list[DirPath] # None

\* what a call returns from a cache that holds nothing: the answer of the
\* source
tree_fresh(op, p) ==
    IF op = "readdir" /\ ~tree_isdir(p) THEN << "OSError" >> ELSE << op, p >>

\* C21: no location that holds a record of one path is the cache directory
\* of another, and every getattr and readdir of a path returns what it
\* returns from an empty cache, whatever other paths have been cached.
C21_DistinctLocations ==
    /\ \A p \in TreePaths, file \in { "cache.stat", "cache.list" } :
        tree[get_cache_loc(p, file)].kind # "dir"
    /\ tr_ret[1] # "none" => tr_ret[3] = tree_fresh(tr_ret[1], tr_ret[2])

====
